---- MODULE Spec2Model ----
(***************************************************************************)
(* Book collection, completion status, shared enriched-book cache,         *)
(* enrichment queue and retry counters of the book-analytics dashboard,    *)
(* with the asynchronous chains of BookEnrichmentOrchestrator interleaved  *)
(* at their suspension points (every await and every timer).               *)
(*                                                                         *)
(* A Book record carries the fields the orchestration reads or writes:     *)
(* id, isbn, dateAdded, readingStatus, userRating, isFavorite, the set of  *)
(* analytical fields that identifyMissingData finds populated (filled),    *)
(* and the enrichment envelope enrichedData.                               *)
(***************************************************************************)
EXTENDS Integers, Sequences, FiniteSets, TLC

\* ---------------------------------------------------------------- bounds
MaxProcs == 2
MaxOps == 2
MaxTime == 1

\* ------------------------------------------------------- program constants
RetryLimit == 3
CompletionThreshold == 80
FieldsPerPass == 3

Slots == 1..MaxProcs

\* --------------------------------------------------------------- catalog
\* The catalog volumes the user can pick: two editions carrying the same
\* ISBN-13 (one also lists an ISBN-10 first) and one without any ISBN.
CatalogIds == {"g1", "g2", "g3"}

IndustryIdentifiers(gid) ==
    CASE gid = "g1" -> << [type |-> "ISBN_10", identifier |-> "0000000001"],
                          [type |-> "ISBN_13", identifier |-> "9780000000001"] >>
      [] gid = "g2" -> << [type |-> "ISBN_13", identifier |-> "9780000000001"] >>
      [] OTHER      -> << [type |-> "OTHER", identifier |-> "OCLC:1"] >>

PlaceholderNames ==
    << "placeholder-0", "placeholder-1", "placeholder-2", "placeholder-3" >>

\* `placeholder-${Date.now()}`
PlaceholderIsbn(t) == PlaceholderNames[t + 1]

IsPlaceholder(isbn) == \E i \in 1..Len(PlaceholderNames) : PlaceholderNames[i] = isbn

\* Array.prototype.find over the identifiers: first element of the type.
FindIdentifier(ids, ty) ==
    LET hits == { i \in 1..Len(ids) : ids[i].type = ty }
    IN  IF hits = {} THEN ""
        ELSE ids[CHOOSE i \in hits : \A j \in hits : i <= j].identifier

\* The isbn that convertGoogleBookToMinimalData derives at time t.
MinimalIsbn(gid, t) ==
    LET ids == IndustryIdentifiers(gid)
        isbn13 == FindIdentifier(ids, "ISBN_13")
        isbn10 == FindIdentifier(ids, "ISBN_10")
    IN  IF Len(ids) > 0
        THEN IF isbn13 # "" THEN isbn13
             ELSE IF isbn10 # "" THEN isbn10 ELSE PlaceholderIsbn(t)
        ELSE PlaceholderIsbn(t)

\* ------------------------------------------------------------ book records
\* The fields identifyMissingData inspects, in the order it pushes them.
FieldOrder == << "themes", "characters", "locations", "narrativeStructure",
                 "genres", "subgenres", "complexity", "culturalContext" >>

NoEnrichment == [present |-> FALSE, source |-> "", aiAnalysis |-> ""]

\* createFullBookFromMinimalData: narrativeStructure.pov and
\* culturalContext.representation are set, every other analytical field
\* is empty, no enrichedData.
DefaultFilled == {"narrativeStructure", "culturalContext"}

CreateFullBookFromMinimalData(gid, isbn, t) ==
    [ id |-> gid, isbn |-> isbn, dateAdded |-> t,
      readingStatus |-> "to-read", userRating |-> 0, isFavorite |-> FALSE,
      filled |-> DefaultFilled, enrichedData |-> NoEnrichment ]

NoBook == [ id |-> "", isbn |-> "", dateAdded |-> 0,
            readingStatus |-> "to-read", userRating |-> 0, isFavorite |-> FALSE,
            filled |-> {}, enrichedData |-> NoEnrichment ]

\* identifyMissingData: the inspected fields that are empty, in order.
IdentifyMissingData(book) ==
    SelectSeq(FieldOrder, LAMBDA f : f \notin book.filled)

\* missingFields.slice(0, 3)
FieldsToProcess(missing) ==
    SubSeq(missing, 1, IF Len(missing) < FieldsPerPass THEN Len(missing) ELSE FieldsPerPass)

\* ------------------------------------------------------ completion status
SectionFlags == { "basicInfoComplete", "publicationDetailsComplete",
                  "contentClassificationComplete", "narrativeElementsComplete",
                  "contentAnalysisComplete", "readingExperienceComplete",
                  "culturalContextComplete", "complexityAnalysisComplete" }

\* initializeMetadataStatus with no section marked.
InitialStatusAllFalse(bookId) ==
    [ bookId |-> bookId, flags |-> [ f \in SectionFlags |-> FALSE ] ]

\* initializeMetadataStatus: the record pushed for a new book id.
InitialStatus(bookId) ==
    [ bookId |-> bookId,
      flags |-> [ f \in SectionFlags |-> f = "basicInfoComplete" ] ]

\* sectionToStatusField with the entries of genres and themes exchanged.
SectionToStatusFieldSwapped(section) ==
    CASE section = "genres" -> "contentAnalysisComplete"
      [] section = "themes" -> "contentClassificationComplete"
      [] OTHER              -> ""

\* sectionToStatusField: "" for a field that is not in the table.
SectionToStatusField(section) ==
    CASE section \in {"authors", "title", "subtitle"} -> "basicInfoComplete"
      [] section \in {"publisher", "publishedDate", "edition", "language",
                      "translator", "pageCount", "format", "series"}
                                                      -> "publicationDetailsComplete"
      [] section \in {"genres", "subgenres", "subjects", "contentTags",
                      "audience", "fiction"}          -> "contentClassificationComplete"
      [] section = "narrativeStructure"               -> "narrativeElementsComplete"
      [] section \in {"themes", "locations", "historicalPeriod", "characters"}
                                                      -> "contentAnalysisComplete"
      [] section \in {"readingSessions", "annotations", "userNotes", "userTags",
                      "emotionalResponse"}            -> "readingExperienceComplete"
      [] section \in {"awards", "culturalContext"}    -> "culturalContextComplete"
      [] section = "complexity"                       -> "complexityAnalysisComplete"
      [] OTHER                                        -> ""

\* ------------------------------------------------------------- sequences
IndexOf(seq, P(_)) ==
    LET hits == { i \in 1..Len(seq) : P(seq[i]) }
    IN  IF hits = {} THEN 0 ELSE CHOOSE i \in hits : \A j \in hits : i <= j

Upsert(f, k, v) == [ x \in (DOMAIN f) \cup {k} |-> IF x = k THEN v ELSE f[x] ]

RemoveKey(f, k) == [ x \in (DOMAIN f) \ {k} |-> f[x] ]

\* ------------------------------------------------------- Book Repository
GetMetadataStatusIndex(sts, bookId) == IndexOf(sts, LAMBDA s : s.bookId = bookId)

\* calculateMetadataCompletionPercentage: Math.round(done / 8 * 100),
\* 0 when there is no status record.
CalculateMetadataCompletionPercentage(sts, bookId) ==
    LET i == GetMetadataStatusIndex(sts, bookId)
    IN  IF i = 0 THEN 0
        ELSE LET done == Cardinality({ f \in SectionFlags : sts[i].flags[f] })
                 total == Cardinality(SectionFlags)
             IN  (2 * 100 * done + total) \div (2 * total)

\* saveBook pushing the book whether or not its id is there.
SaveBookAppending(bks, sts, book) ==
    [ books |-> Append(bks, book),
      statuses |-> IF IndexOf(bks, LAMBDA b : b.id = book.id) > 0
                   THEN sts ELSE Append(sts, InitialStatus(book.id)) ]

\* saveBook pushing a fresh status record on every save.
SaveBookAlwaysInitializing(bks, sts, book) ==
    LET i == IndexOf(bks, LAMBDA b : b.id = book.id)
    IN  [ books |-> IF i > 0 THEN [bks EXCEPT ![i] = book] ELSE Append(bks, book),
          statuses |-> Append(sts, InitialStatus(book.id)) ]

\* saveBook putting a fresh status record in place of the book's own when it
\* replaces the book.
SaveBookResettingStatus(bks, sts, book) ==
    LET i == IndexOf(bks, LAMBDA b : b.id = book.id)
    IN  IF i > 0
        THEN [ books |-> [bks EXCEPT ![i] = book],
               statuses |-> [ k \in 1..Len(sts) |->
                                IF sts[k].bookId = book.id
                                THEN InitialStatus(book.id) ELSE sts[k] ] ]
        ELSE [ books |-> Append(bks, book),
               statuses |-> Append(sts, InitialStatus(book.id)) ]

\* saveBook: replace the first book of that id, else push the book and
\* push a fresh status record for it.
SaveBook(bks, sts, book) ==
    LET i == IndexOf(bks, LAMBDA b : b.id = book.id)
    IN  IF i > 0
        THEN [ books |-> [bks EXCEPT ![i] = book], statuses |-> sts ]
        ELSE [ books |-> Append(bks, book),
               statuses |-> Append(sts, InitialStatus(book.id)) ]

\* deleteBook without the cascade to the status list.
DeleteBookKeepingStatus(bks, sts, id) ==
    LET filtered == SelectSeq(bks, LAMBDA b : b.id # id)
    IN  [ books |-> filtered, statuses |-> sts, result |-> Len(filtered) # Len(bks) ]

\* deleteBook: filter the id out; cascade to the status list when a book
\* was removed.
DeleteBookResult(bks, sts, id) ==
    LET filtered == SelectSeq(bks, LAMBDA b : b.id # id)
    IN  IF Len(filtered) # Len(bks)
        THEN [ books |-> filtered,
               statuses |-> SelectSeq(sts, LAMBDA s : s.bookId # id),
               result |-> TRUE ]
        ELSE [ books |-> bks, statuses |-> sts, result |-> FALSE ]

\* ---------------------------------------------------- queue, cache, retry
\* isInEnrichmentQueue answering no whatever the queue holds.
IsInEnrichmentQueueNever(q, isbn) == FALSE

IsInEnrichmentQueue(q, isbn) == \E i \in 1..Len(q) : q[i] = isbn

\* addToEnrichmentQueue without its includes test.
AddToEnrichmentQueueAlways(q, isbn) == Append(q, isbn)

AddToEnrichmentQueue(q, isbn) ==
    IF IsInEnrichmentQueue(q, isbn) THEN q ELSE Append(q, isbn)

\* removeFromEnrichmentQueue writing the queue back as it read it.
RemoveFromEnrichmentQueueNothing(q, isbn) == q

RemoveFromEnrichmentQueue(q, isbn) == SelectSeq(q, LAMBDA x : x # isbn)

\* getEnrichedBookByISBN: enrichedBooks[isbn] || null
HasEnrichedBook(c, isbn) == isbn \in DOMAIN c

\* parseInt(localStorage.getItem(retryKey) || '0')
RetryCount(r, isbn) == IF isbn \in DOMAIN r THEN r[isbn] ELSE 0


\* ------------------------------------------------------------------ state
VARIABLES
    books,      \* enhanced_books: the user's collection, an array of Book
    statuses,   \* metadata_completion_status: array of status records
    cache,      \* shared_enriched_books: isbn -> Book
    queue,      \* enrichment_queue: array of isbn
    retry,      \* retry_count_<isbn> keys: isbn -> counter
    procs,      \* the asynchronous chains that are suspended, one per slot
    now,        \* the wall clock
    ops,        \* user-initiated calls made so far
    ev,         \* what the last step did (observation only)
    addStarted  \* <<isbn, catalog id>> of every enrichment an add started

vars == << books, statuses, cache, queue, retry, procs, now, ops, ev, addStarted >>

stores == << books, statuses, cache, queue, retry >>

Idle == [ kind |-> "idle", pc |-> "", gid |-> "", book |-> NoBook,
          caller |-> "", rest |-> << >>, attempts |-> 0, clean |-> FALSE ]

\* What the last step did: its type, the slot it ran in (0: none), when the
\* step is a public method settling its promise, how it settled, and, when
\* it is a write of the repository, the book id and the section it was
\* called with.
Event(type, s) ==
    [ type |-> type, slot |-> s, settled |-> "", id |-> "", section |-> "" ]

Returned(type, s, how) == [Event(type, s) EXCEPT !.settled = how]

Wrote(type, id, section) == [Event(type, 0) EXCEPT !.id = id, !.section = section]

FreeSlots == { s \in Slots : procs[s].kind = "idle" }

\* The lowest free slot: chains are anonymous, so one choice is enough.
FreeSlot == CHOOSE s \in FreeSlots : \A t \in FreeSlots : s <= t

\* A processEnrichment chain (running or waiting for its retry timer).
IsChain(p) == p.kind \in {"pe", "timer"}

\* A processEnrichment pass that has started and not yet returned.
InFlight(p) == p.kind = "pe"

Init ==
    /\ books = << >>
    /\ statuses = << >>
    /\ cache = << >>
    /\ queue = << >>
    /\ retry = << >>
    /\ procs = [ s \in Slots |-> Idle ]
    /\ now = 0
    /\ ops = 0
    /\ ev = Event("Init", 0)
    /\ addStarted = {}


\* ------------------------------------------------- Text-Generation Client
\* What the holistic request can come back with: a parsed analysis, an
\* analysis whose text is the "Analysis is currently being generated"
\* placeholder, or a failed/unparsable call.
AnalysisResponses == {"ok", "pending", "error"}

\* generateBookAnalysis: the enrichment object it resolves with.  Its catch
\* turns every failure into an object without aiAnalysis; it never rejects.
GenerateBookAnalysis(resp) ==
    IF resp = "error"
    THEN [ source |-> "error", aiAnalysis |-> "", themes |-> FALSE, keywords |-> FALSE ]
    ELSE [ source |-> "perplexity_ai",
           aiAnalysis |-> IF resp = "pending" THEN "pending" ELSE "analysis",
           themes |-> TRUE, keywords |-> TRUE ]

\* The test of the analysis failing whatever came back.
AnalysisUsableNever(analysis) == FALSE

\* analysisData.aiAnalysis && !aiAnalysis.includes('Analysis is currently being generated')
AnalysisUsable(analysis) ==
    analysis.aiAnalysis # "" /\ analysis.aiAnalysis # "pending"

\* The book processEnrichment builds from a usable analysis: the envelope,
\* themes from the analysis, genres from its keywords when the book has none.
ApplyAnalysis(book, analysis) ==
    [ book EXCEPT
        !.enrichedData = [ present |-> TRUE, source |-> analysis.source,
                           aiAnalysis |-> analysis.aiAnalysis ],
        !.filled = book.filled
                   \cup (IF analysis.themes THEN {"themes"} ELSE {})
                   \cup (IF "genres" \notin book.filled /\ analysis.keywords
                         THEN {"genres"} ELSE {}) ]

\* What one per-field request can come back with: a well-formed payload, a
\* failed or unparsable call, or a payload of the wrong shape (themes that
\* is not an array, genres that is not an array).
FieldResponses == {"ok", "fail", "malformed"}

\* The switch of AIEnrichmentService.enrichBookMetadata for a well-formed
\* payload; it has no case for subgenres.
ApplyField(ebook, field) ==
    CASE field = "genres"    -> [ebook EXCEPT !.filled = @ \cup {"genres", "subgenres"}]
      [] field = "subgenres" -> ebook
      [] OTHER               -> [ebook EXCEPT !.filled = @ \cup {field}]

\* A payload of the wrong shape is stored for themes and genres and makes
\* the summary after the loop throw (themes.map / genres.join).
BreaksSummary(field) == field \in {"themes", "genres"}

\* The copy AIEnrichmentService.enrichBookMetadata starts from.
StartFieldPass(book) ==
    IF book.enrichedData.present THEN book
    ELSE [book EXCEPT !.enrichedData =
            [ present |-> TRUE, source |-> "perplexity_ai", aiAnalysis |-> "" ]]

\* An iteration whose failed request ends the pass with an error.
FieldStepAborting(st, field, resp) ==
    LET asked == [st EXCEPT !.requested = Append(@, field)]
    IN  CASE resp = "ok" ->
               [asked EXCEPT !.ebook = ApplyField(st.ebook, field), !.answered = TRUE]
          [] resp = "malformed" /\ BreaksSummary(field) ->
               [asked EXCEPT !.bad = TRUE, !.answered = TRUE]
          [] resp = "malformed" ->
               [asked EXCEPT !.ebook = ApplyField(st.ebook, field), !.answered = TRUE]
          [] OTHER -> [asked EXCEPT !.bad = TRUE]

\* One iteration of the loop of AIEnrichmentService.enrichBookMetadata on
\* the pass state st = [ebook, bad, answered, requested]: the request for
\* the field goes out and comes back as resp.
FieldStep(st, field, resp) ==
    LET asked == [st EXCEPT !.requested = Append(@, field)]
    IN  CASE resp = "ok" ->
               [asked EXCEPT !.ebook = ApplyField(st.ebook, field), !.answered = TRUE]
          [] resp = "malformed" /\ BreaksSummary(field) ->
               [asked EXCEPT !.bad = TRUE, !.answered = TRUE]
          [] resp = "malformed" ->
               [asked EXCEPT !.ebook = ApplyField(st.ebook, field), !.answered = TRUE]
          [] OTHER -> asked

\* The loop over fieldsToProcess, resps[i] being the answer to the i-th
\* request.  The loop touches nothing but the pass's own copy of the book.
RECURSIVE RunFieldLoop(_, _, _)
RunFieldLoop(st, fields, resps) ==
    IF fields = << >> THEN st
    ELSE RunFieldLoop(FieldStep(st, Head(fields), Head(resps)), Tail(fields), Tail(resps))

\* AIEnrichmentService.enrichBookMetadata(book) for a book with missing
\* fields: [ebook, bad, answered, requested]; bad = the summary throws.
FieldPass(book, answered, resps) ==
    RunFieldLoop([ ebook |-> StartFieldPass(book), bad |-> FALSE,
                   answered |-> answered, requested |-> << >> ],
                 FieldsToProcess(IdentifyMissingData(book)), resps)

\* The summary written after the loop.
Summarise(ebook) ==
    [ebook EXCEPT !.enrichedData =
        [ present |-> TRUE, source |-> "perplexity_ai", aiAnalysis |-> "summary" ]]

\* ---------------------------------------------------- Enrichment Orchestrator
\* saveEnrichedBook without its isbn test.
SaveEnrichedBookUnguarded(c, q, book) ==
    [ cache |-> Upsert(c, book.isbn, book),
      queue |-> RemoveFromEnrichmentQueue(q, book.isbn) ]

\* saveEnrichedBook
SaveEnrichedBook(c, q, book) ==
    IF book.isbn = ""
    THEN [ cache |-> c, queue |-> q ]
    ELSE [ cache |-> Upsert(c, book.isbn, book),
           queue |-> RemoveFromEnrichmentQueue(q, book.isbn) ]

\* processEnrichment, the head: nothing without an isbn, else enqueue.
ProcessEnrichmentEntry(q, book) ==
    IF book.isbn = ""
    THEN [ queue |-> q, started |-> FALSE ]
    ELSE [ queue |-> AddToEnrichmentQueue(q, book.isbn), started |-> TRUE ]

\* processEnrichment saving its result over the user's fields of the book
\* as it is stored at that moment.
PeCompleteMerging(bks, sts, c, q, book, ebook) ==
    LET i == IndexOf(bks, LAMBDA b : b.id = ebook.id)
        merged == IF i = 0 THEN ebook
                  ELSE [ebook EXCEPT !.readingStatus = bks[i].readingStatus,
                                     !.userRating = bks[i].userRating,
                                     !.isFavorite = bks[i].isFavorite,
                                     !.filled = @ \cup bks[i].filled]
        eb == IF merged.enrichedData.present
                 /\ merged.enrichedData.source # "classic_literature_database"
              THEN [merged EXCEPT !.enrichedData.source = "goodreads_via_perplexity"]
              ELSE merged
        saved == IF eb.enrichedData.present
                 THEN SaveBook(bks, sts, eb)
                 ELSE [ books |-> bks, statuses |-> sts ]
        shared == IF eb.enrichedData.present /\ eb.isbn # ""
                  THEN SaveEnrichedBook(c, q, eb)
                  ELSE [ cache |-> c, queue |-> q ]
    IN  [ books |-> saved.books, statuses |-> saved.statuses,
          cache |-> shared.cache,
          queue |-> IF book.isbn # ""
                    THEN RemoveFromEnrichmentQueue(shared.queue, book.isbn)
                    ELSE shared.queue ]

\* processEnrichment, the tail of the try block: save and dequeue.
PeComplete(bks, sts, c, q, book, ebook) ==
    LET eb == IF ebook.enrichedData.present
                 /\ ebook.enrichedData.source # "classic_literature_database"
              THEN [ebook EXCEPT !.enrichedData.source = "goodreads_via_perplexity"]
              ELSE ebook
        saved == IF eb.enrichedData.present
                 THEN SaveBook(bks, sts, eb)
                 ELSE [ books |-> bks, statuses |-> sts ]
        shared == IF eb.enrichedData.present /\ eb.isbn # ""
                  THEN SaveEnrichedBook(c, q, eb)
                  ELSE [ cache |-> c, queue |-> q ]
    IN  [ books |-> saved.books, statuses |-> saved.statuses,
          cache |-> shared.cache,
          queue |-> IF book.isbn # ""
                    THEN RemoveFromEnrichmentQueue(shared.queue, book.isbn)
                    ELSE shared.queue ]

\* The retry test with the bound included.
ShouldRetryInclusive(retryCount) == retryCount <= RetryLimit

\* if (retryCount < 3)
ShouldRetry(retryCount) == retryCount < RetryLimit

TerminalEnrichment == [ present |-> TRUE, source |-> "error", aiAnalysis |-> "terminal" ]

\* The catch block once the retries are used up, with the dequeue that
\* is forgotten.
GiveUpQueued(bks, sts, q, r, book) ==
    LET saved == IF ~ book.enrichedData.present
                 THEN SaveBook(bks, sts, [book EXCEPT !.enrichedData = TerminalEnrichment])
                 ELSE [ books |-> bks, statuses |-> sts ]
    IN  [ books |-> saved.books, statuses |-> saved.statuses,
          queue |-> q, retry |-> RemoveKey(r, book.isbn), timer |-> FALSE ]

\* processEnrichment, the catch block once the retries are used up: the
\* counter is cleared, a book without enrichment data gets the note and is
\* saved, the isbn is dequeued.
GiveUp(bks, sts, q, r, book) ==
    LET saved == IF ~ book.enrichedData.present
                 THEN SaveBook(bks, sts, [book EXCEPT !.enrichedData = TerminalEnrichment])
                 ELSE [ books |-> bks, statuses |-> sts ]
    IN  [ books |-> saved.books, statuses |-> saved.statuses,
          queue |-> RemoveFromEnrichmentQueue(q, book.isbn),
          retry |-> RemoveKey(r, book.isbn), timer |-> FALSE ]

\* processEnrichment, the catch block.
PeCatch(bks, sts, q, r, book) ==
    IF book.isbn = ""
    THEN [ books |-> bks, statuses |-> sts, queue |-> q, retry |-> r, timer |-> FALSE ]
    ELSE IF ShouldRetry(RetryCount(r, book.isbn))
    THEN [ books |-> bks, statuses |-> sts, queue |-> q,
           retry |-> Upsert(r, book.isbn, RetryCount(r, book.isbn) + 1),
           timer |-> TRUE ]
    ELSE GiveUp(bks, sts, q, r, book)

\* The loop leaving the entries without a book in the queue.
RECURSIVE QueueScanKeeping(_, _, _)
QueueScanKeeping(q, bks, rest) ==
    IF rest = << >>
    THEN [ queue |-> q, found |-> FALSE, book |-> NoBook, rest |-> << >> ]
    ELSE LET i == IndexOf(bks, LAMBDA b : b.isbn = Head(rest))
         IN  IF i > 0
             THEN [ queue |-> q, found |-> TRUE, book |-> bks[i], rest |-> Tail(rest) ]
             ELSE QueueScanKeeping(q, bks, Tail(rest))

\* processEnrichmentQueue, the loop from the entries in rest up to its next
\* await: entries without a book in the collection are dequeued.
RECURSIVE QueueScan(_, _, _)
QueueScan(q, bks, rest) ==
    IF rest = << >>
    THEN [ queue |-> q, found |-> FALSE, book |-> NoBook, rest |-> << >> ]
    ELSE LET i == IndexOf(bks, LAMBDA b : b.isbn = Head(rest))
         IN  IF i > 0
             THEN [ queue |-> q, found |-> TRUE, book |-> bks[i], rest |-> Tail(rest) ]
             ELSE QueueScan(RemoveFromEnrichmentQueue(q, Head(rest)), bks, Tail(rest))


\* ------------------------------------------------------------ chain steps
\* A chain of this isbn is no longer the only one touching its counter.
Disturb(ps, isbn) ==
    [ s \in Slots |-> IF IsChain(ps[s]) /\ ps[s].book.isbn = isbn
                      THEN [ps[s] EXCEPT !.clean = FALSE] ELSE ps[s] ]

\* A new chain is clean when the counter is cleared and no other chain of
\* the isbn exists.
StartsClean(isbn) ==
    /\ isbn \notin DOMAIN retry
    /\ ~ \E s \in Slots : IsChain(procs[s]) /\ procs[s].book.isbn = isbn

\* processEnrichment suspended on the holistic request.
PeProc(book, caller, rest, attempts, clean) ==
    [ Idle EXCEPT !.kind = "pe", !.pc = "holistic", !.book = book,
                  !.caller = caller, !.rest = rest, !.attempts = attempts,
                  !.clean = clean ]

\* The 5 second retry timer of the catch block.
TimerProc(p) ==
    [ Idle EXCEPT !.kind = "timer", !.pc = "timer", !.book = p.book,
                  !.attempts = p.attempts, !.clean = p.clean ]

\* processEnrichmentQueue suspended on its 2 second pause.
QueuePause(rest) == [ Idle EXCEPT !.kind = "queue", !.pc = "qdelay", !.rest = rest ]

\* Where the chain in slot s goes when its processEnrichment pass returns:
\* back into the queue loop that awaited it, or nowhere; a scheduled retry
\* timer is a chain of its own.
AfterPass(s, p, timer) ==
    IF p.caller = "queue"
    THEN /\ timer => FreeSlots # {}
         /\ procs' = IF timer
                     THEN [procs EXCEPT ![s] = QueuePause(p.rest),
                                        ![FreeSlot] = TimerProc(p)]
                     ELSE [procs EXCEPT ![s] = QueuePause(p.rest)]
    ELSE procs' = [procs EXCEPT ![s] = IF timer THEN TimerProc(p) ELSE Idle]

\* processEnrichment returns normally with enrichedBook = eb; answered =
\* some text-generation request of the pass was answered.
PeDone(s, p, eb, answered) ==
    LET r == PeComplete(books, statuses, cache, queue, p.book, eb)
    IN  /\ books' = r.books
        /\ statuses' = r.statuses
        /\ cache' = r.cache
        /\ queue' = r.queue
        /\ AfterPass(s, p, FALSE)
        /\ ev' = Event(IF answered THEN "PassDone" ELSE "PassDoneNoAnswer", s)
        /\ UNCHANGED << retry, now, addStarted >>

\* processEnrichment lands in its catch block.
PeFail(s, p) ==
    LET r == PeCatch(books, statuses, queue, retry, p.book)
    IN  /\ books' = r.books
        /\ statuses' = r.statuses
        /\ queue' = r.queue
        /\ retry' = r.retry
        /\ AfterPass(s, p, r.timer)
        /\ ev' = Event(IF r.timer THEN "RetryScheduled" ELSE "Terminal", s)
        /\ UNCHANGED << cache, now, addStarted >>

\* orchestrator.enrichBookMetadata, the branch for a book with an isbn: the
\* book it was given, with the enrichment data just built, goes to the
\* cache and to the collection.
OrchSave(bks, sts, c, q, book) ==
    LET updatedBook == [book EXCEPT !.enrichedData =
                          [ present |-> TRUE, source |-> "perplexity_ai",
                            aiAnalysis |-> "summary" ]]
        shared == SaveEnrichedBook(c, q, updatedBook)
        saved == SaveBook(bks, sts, updatedBook)
    IN  [ books |-> saved.books, statuses |-> saved.statuses,
          cache |-> shared.cache, queue |-> shared.queue ]

\* A catch block that throws the error on.
EnrichBookMetadataRethrows == "rejected"

\* The catch block of orchestrator.enrichBookMetadata returns a minimal
\* enrichment object: the promise resolves.
EnrichBookMetadataCatch == "resolved"

\* orchestrator.enrichBookMetadata after the per-field pass: threw = the
\* pass rejected (the catch then resolves with an error object).
OrchReturn(s, p, threw) ==
    /\ IF ~ threw /\ p.book.isbn # ""
       THEN LET r == OrchSave(books, statuses, cache, queue, p.book)
            IN  /\ cache' = r.cache
                /\ queue' = r.queue
                /\ books' = r.books
                /\ statuses' = r.statuses
       ELSE UNCHANGED << books, statuses, cache, queue >>
    /\ procs' = [procs EXCEPT ![s] = Idle]
    /\ ev' = IF threw
             THEN Returned("OrchFailed", s, EnrichBookMetadataCatch)
             ELSE Returned("OrchCompleted", s, "resolved")
    /\ UNCHANGED << retry, now, addStarted >>

\* BookDetails.startEnrichment after the per-field pass resolved with eb
\* or rejected (threw): saveEnrichedBook, then refreshBooks, which only reads.
DetailsReturn(s, p, threw, eb) ==
    /\ IF ~ threw /\ p.book.isbn # ""
       THEN LET shared == SaveEnrichedBook(cache, queue, eb)
            IN  /\ cache' = shared.cache
                /\ queue' = shared.queue
       ELSE UNCHANGED << cache, queue >>
    /\ procs' = [procs EXCEPT ![s] = Idle]
    /\ ev' = Event(IF threw THEN "DetailsError" ELSE "DetailsCompleted", s)
    /\ UNCHANGED << books, statuses, retry, now, addStarted >>

\* AIEnrichmentService.enrichBookMetadata(book) is called by the chain p
\* in slot s: it returns the book as it is when nothing is missing, else
\* the chain is suspended on the per-field requests.
EnterFieldPass(s, p) ==
    IF Len(IdentifyMissingData(p.book)) = 0
    THEN CASE p.kind = "pe"   -> PeDone(s, p, p.book, FALSE)
           [] p.kind = "orch" -> OrchReturn(s, p, FALSE)
           [] OTHER           -> DetailsReturn(s, p, FALSE, p.book)
    ELSE /\ procs' = [procs EXCEPT ![s] = [p EXCEPT !.pc = "fields"]]
         /\ ev' = Event("FieldsRequested", s)
         /\ UNCHANGED << stores, now, addStarted >>

\* The answers a per-field pass over the given fields can get: a wrongly
\* shaped payload is told apart only where the shape matters.
FieldAnswers(fields) ==
    { r \in [ 1..Len(fields) -> FieldResponses ] :
        \A i \in 1..Len(fields) : r[i] = "malformed" => BreaksSummary(fields[i]) }

\* The answers the state machine draws from: the service is up, or down,
\* for the whole pass after its first request.
PassAnswers(fields) ==
    { r \in FieldAnswers(fields) :
        \A i \in 2..Len(fields) : r[i] = r[2] /\ r[i] # "malformed" }

\* ---------------------------------------------------------------- actions
\* (The helpers above leave ops to the action that uses them.)

\* addBookToLibrary(gid) is called: the catalog request goes out.
AddBookToLibrary(gid) ==
    /\ ops < MaxOps
    /\ FreeSlots # {}
    /\ procs' = [procs EXCEPT ![FreeSlot] = [Idle EXCEPT !.kind = "add", !.pc = "fetch",
                                                         !.gid = gid]]
    /\ ops' = ops + 1
    /\ ev' = Event("AddCalled", FreeSlot)
    /\ UNCHANGED << stores, now, addStarted >>

\* A failing catalog request that leaves a default book behind.
AddFetchFailedSaved(s) ==
    LET saved == SaveBook(books, statuses,
                          CreateFullBookFromMinimalData(procs[s].gid, "", now))
    IN  /\ procs[s].kind = "add"
        /\ books' = saved.books
        /\ statuses' = saved.statuses
        /\ procs' = [procs EXCEPT ![s] = Idle]
        /\ ev' = Returned("AddRejected", s, "rejected")
        /\ UNCHANGED << cache, queue, retry, now, ops, addStarted >>

\* The catalog request fails (non-2xx, transport or body error): the call
\* rejects.
AddFetchFailed(s) ==
    /\ procs[s].kind = "add"
    /\ procs' = [procs EXCEPT ![s] = Idle]
    /\ ev' = Returned("AddRejected", s, "rejected")
    /\ UNCHANGED << stores, now, ops, addStarted >>

\* A clone that keeps the reading status of the cached book.
BookForUserKeepingStatus(enrichedBook, gid, t) ==
    [ enrichedBook EXCEPT !.id = gid, !.dateAdded = t, !.userRating = 0 ]

\* The clone addBookToLibrary makes of a cached book.
BookForUser(enrichedBook, gid, t) ==
    [ enrichedBook EXCEPT !.id = gid, !.dateAdded = t,
                          !.readingStatus = "to-read", !.userRating = 0 ]

\* The catalog request succeeds and the shared cache has the isbn: the
\* cached book is cloned for the user and saved.
AddCacheHit(s) ==
    LET gid == procs[s].gid
        isbn == MinimalIsbn(gid, now)
    IN  /\ procs[s].kind = "add"
        /\ isbn # "" /\ HasEnrichedBook(cache, isbn)
        /\ LET saved == SaveBook(books, statuses, BookForUser(cache[isbn], gid, now))
           IN  /\ books' = saved.books
               /\ statuses' = saved.statuses
        /\ ev' = Returned("AddHit", s, "resolved")
        /\ procs' = [procs EXCEPT ![s] = Idle]
        /\ UNCHANGED << cache, queue, retry, now, ops, addStarted >>

\* if (savedBook.isbn): start the background enrichment
StartsEnrichment(savedBook) == savedBook.isbn # ""

\* The catalog request succeeds and the cache has nothing: a default book
\* is saved and returned, and processEnrichment is started on it.
AddCacheMiss(s) ==
    LET gid == procs[s].gid
        isbn == MinimalIsbn(gid, now)
        fullBook == CreateFullBookFromMinimalData(gid, isbn, now)
        saved == SaveBook(books, statuses, fullBook)
        entry == ProcessEnrichmentEntry(queue, fullBook)
    IN  /\ procs[s].kind = "add"
        /\ ~ (isbn # "" /\ HasEnrichedBook(cache, isbn))
        /\ books' = saved.books
        /\ statuses' = saved.statuses
        /\ IF StartsEnrichment(fullBook) /\ entry.started
           THEN /\ queue' = entry.queue
                /\ procs' = [Disturb(procs, isbn) EXCEPT ![s] =
                               PeProc(fullBook, "", << >>, 1, StartsClean(isbn))]
                /\ addStarted' = addStarted \cup { << isbn, gid >> }
           ELSE /\ queue' = queue
                /\ procs' = [procs EXCEPT ![s] = Idle]
                /\ addStarted' = addStarted
        /\ ev' = Returned("AddMiss", s, "resolved")
        /\ UNCHANGED << cache, retry, now, ops >>

\* The holistic request of a processEnrichment pass comes back.
HolisticReturn(s, resp) ==
    LET p == procs[s]
        analysis == GenerateBookAnalysis(resp)
    IN  /\ p.kind = "pe" /\ p.pc = "holistic"
        /\ ops' = ops
        /\ IF AnalysisUsable(analysis)
           THEN PeDone(s, p, ApplyAnalysis(p.book, analysis), TRUE)
           ELSE EnterFieldPass(s, p)

\* The per-field pass a chain awaits comes back: its requests were
\* answered by resps, one after the other.
FieldsReturn(s, resps) ==
    LET p == procs[s]
        r == FieldPass(p.book, FALSE, resps)
    IN  /\ p.pc = "fields"
        /\ ops' = ops
        /\ CASE p.kind = "pe" ->
                  IF r.bad THEN PeFail(s, p)
                  ELSE PeDone(s, p, Summarise(r.ebook), r.answered)
             [] p.kind = "orch" -> OrchReturn(s, p, r.bad)
             [] OTHER -> DetailsReturn(s, p, r.bad, Summarise(r.ebook))

\* The retry timer fires: processEnrichment runs again on the same book.
RetryTimerFires(s) ==
    LET p == procs[s]
        entry == ProcessEnrichmentEntry(queue, p.book)
    IN  /\ p.kind = "timer"
        /\ queue' = entry.queue
        /\ procs' = [procs EXCEPT ![s] =
                        PeProc(p.book, "", << >>, p.attempts + 1, p.clean)]
        /\ ev' = Event("RetryStarted", s)
        /\ UNCHANGED << books, statuses, cache, retry, now, ops, addStarted >>

\* The books the UI can hand to the orchestrator: those of the collection.
UiBooks == { books[i] : i \in 1..Len(books) }

\* scheduleEnrichment(book)
ScheduleEnrichment(book) ==
    /\ ops < MaxOps
    /\ ops' = ops + 1
    /\ IF book.isbn = ""
       THEN /\ ev' = Returned("ScheduleNoIsbn", 0, "resolved")
            /\ UNCHANGED << stores, procs, now, addStarted >>
       ELSE IF IsInEnrichmentQueue(queue, book.isbn)
       THEN /\ ev' = [Returned("ScheduleSkipped", 0, "resolved") EXCEPT !.id = book.id]
            /\ UNCHANGED << stores, procs, now, addStarted >>
       ELSE /\ FreeSlots # {}
            /\ queue' = ProcessEnrichmentEntry(AddToEnrichmentQueue(queue, book.isbn), book).queue
            /\ procs' = [Disturb(procs, book.isbn) EXCEPT ![FreeSlot] =
                            PeProc(book, "", << >>, 1, StartsClean(book.isbn))]
            /\ ev' = [Returned("ScheduleStarted", FreeSlot, "resolved") EXCEPT !.id = book.id]
            /\ UNCHANGED << books, statuses, cache, retry, now, addStarted >>

\* The queue loop runs from the entries in rest to its next await.
QueueLoop(s, rest) ==
    LET scan == QueueScan(queue, books, rest)
    IN  /\ queue' = IF scan.found
                    THEN ProcessEnrichmentEntry(scan.queue, scan.book).queue
                    ELSE scan.queue
        /\ procs' = IF scan.found
                    THEN [Disturb(procs, scan.book.isbn) EXCEPT ![s] =
                            PeProc(scan.book, "queue", scan.rest, 1,
                                   StartsClean(scan.book.isbn))]
                    ELSE [procs EXCEPT ![s] = Idle]
        /\ ev' = IF scan.found THEN Event("QueueStarted", s)
                 ELSE Returned("QueueDone", s, "resolved")
        /\ UNCHANGED << books, statuses, cache, retry, now, addStarted >>

\* processEnrichmentQueue()
ProcessEnrichmentQueue ==
    /\ ops < MaxOps
    /\ ops' = ops + 1
    /\ IF Len(queue) = 0
       THEN /\ ev' = Returned("QueueEmpty", 0, "resolved")
            /\ UNCHANGED << stores, procs, now, addStarted >>
       ELSE /\ FreeSlots # {}
            /\ QueueLoop(FreeSlot, queue)

\* The 2 second pause of the queue loop ends.
QueuePauseDone(s) ==
    /\ procs[s].kind = "queue"
    /\ ops' = ops
    /\ QueueLoop(s, procs[s].rest)

\* orchestrator.enrichBookMetadata(book), called from BookDetails.
EnrichBookMetadata(book) ==
    /\ ops < MaxOps
    /\ ops' = ops + 1
    /\ FreeSlots # {}
    /\ EnterFieldPass(FreeSlot, [Idle EXCEPT !.kind = "orch", !.book = book])

\* BookDetails.startEnrichment on the displayed book.
StartEnrichment(book) ==
    /\ ops < MaxOps
    /\ ops' = ops + 1
    /\ FreeSlots # {}
    /\ EnterFieldPass(FreeSlot, [Idle EXCEPT !.kind = "details", !.book = book])

\* The section writes the user makes in this model, each with its value.
SectionInputs == {"readingStatus", "userRating", "isFavorite", "genres", "themes"}

\* { ...book, [section]: data }
ApplySection(book, section) ==
    CASE section = "readingStatus" -> [book EXCEPT !.readingStatus = "reading"]
      [] section = "userRating"    -> [book EXCEPT !.userRating = 4]
      [] section = "isFavorite"    -> [book EXCEPT !.isFavorite = TRUE]
      [] section = "genres"        -> [book EXCEPT !.filled = @ \cup {"genres"}]
      [] section = "themes"        -> [book EXCEPT !.filled = @ \cup {"themes"}]
      [] OTHER                     -> book

\* updateMetadataCompletionForSection writing a record that holds the
\* section's flag alone.
UpdateMetadataCompletionOnlySection(sts, bookId, section) ==
    LET i == GetMetadataStatusIndex(sts, bookId)
        statusField == SectionToStatusField(section)
    IN  IF i = 0 \/ statusField = ""
        THEN sts
        ELSE [sts EXCEPT ![i].flags = [ f \in SectionFlags |-> f = statusField ]]

\* updateMetadataCompletionForSection
UpdateMetadataCompletionForSection(sts, bookId, section) ==
    LET i == GetMetadataStatusIndex(sts, bookId)
        statusField == SectionToStatusField(section)
    IN  IF i = 0 \/ statusField = ""
        THEN sts
        ELSE [sts EXCEPT ![i].flags[statusField] = TRUE]

\* updateBookSection for the book at index i: save the changed book, then
\* mark the section's status field.
UpdateSection(bks, sts, i, section) ==
    LET saved == SaveBook(bks, sts, ApplySection(bks[i], section))
    IN  [ books |-> saved.books,
          statuses |-> UpdateMetadataCompletionForSection(saved.statuses, bks[i].id, section) ]

\* updateBookSection(bookId, section, data)
UpdateBookSection(bookId, section) ==
    LET i == IndexOf(books, LAMBDA b : b.id = bookId)
    IN  /\ ops < MaxOps
        /\ ops' = ops + 1
        /\ IF i = 0
           THEN /\ ev' = Wrote("UpdateNotFound", bookId, section)
                /\ UNCHANGED << books, statuses >>
           ELSE LET r == UpdateSection(books, statuses, i, section)
                IN  /\ books' = r.books
                    /\ statuses' = r.statuses
                    /\ ev' = Wrote("Updated", bookId, section)
        /\ UNCHANGED << cache, queue, retry, procs, now, addStarted >>

\* deleteBook(id)
DeleteBook(id) ==
    LET r == DeleteBookResult(books, statuses, id)
    IN  /\ ops < MaxOps
        /\ ops' = ops + 1
        /\ books' = r.books
        /\ statuses' = r.statuses
        /\ ev' = Wrote(IF r.result THEN "Deleted" ELSE "DeleteNotFound", id, "")
        /\ UNCHANGED << cache, queue, retry, procs, now, addStarted >>

\* Time passes.
Tick ==
    /\ now < MaxTime
    /\ now' = now + 1
    /\ ev' = Event("Tick", 0)
    /\ UNCHANGED << stores, procs, ops, addStarted >>

Next ==
    \/ \E gid \in CatalogIds : AddBookToLibrary(gid)
    \/ \E s \in Slots : AddFetchFailed(s)
    \/ \E s \in Slots : AddCacheHit(s)
    \/ \E s \in Slots : AddCacheMiss(s)
    \/ \E s \in Slots, resp \in AnalysisResponses : HolisticReturn(s, resp)
    \/ \E s \in Slots :
         \E resps \in PassAnswers(FieldsToProcess(IdentifyMissingData(procs[s].book))) :
            FieldsReturn(s, resps)
    \/ \E s \in Slots : RetryTimerFires(s)
    \/ \E book \in UiBooks : ScheduleEnrichment(book)
    \/ ProcessEnrichmentQueue
    \/ \E s \in Slots : QueuePauseDone(s)
    \/ \E book \in UiBooks : EnrichBookMetadata(book)
    \/ \E book \in UiBooks : StartEnrichment(book)
    \/ \E id \in CatalogIds, section \in SectionInputs : UpdateBookSection(id, section)
    \/ \E id \in CatalogIds : DeleteBook(id)
    \/ Tick

Spec == Init /\ [][Next]_vars

\* The stores are kept in localStorage, so a session starts with what an
\* earlier one left.  Here the earlier session added g1 at time 0, saw its
\* enrichment complete, marked the book as being read and rated it, and
\* had BookDetails call enrichBookMetadata on it.
EarlierSession ==
    LET isbn == MinimalIsbn("g1", 0)
        fullBook == CreateFullBookFromMinimalData("g1", isbn, 0)
        added == SaveBook(<< >>, << >>, fullBook)
        enriched == PeComplete(added.books, added.statuses, << >>,
                               ProcessEnrichmentEntry(<< >>, fullBook).queue, fullBook,
                               ApplyAnalysis(fullBook, GenerateBookAnalysis("ok")))
        read == UpdateSection(enriched.books, enriched.statuses, 1, "readingStatus")
        rated == UpdateSection(read.books, read.statuses, 1, "userRating")
    IN  OrchSave(rated.books, rated.statuses, enriched.cache, enriched.queue, rated.books[1])

InitReturning ==
    /\ books = EarlierSession.books
    /\ statuses = EarlierSession.statuses
    /\ cache = EarlierSession.cache
    /\ queue = EarlierSession.queue
    /\ retry = << >>
    /\ procs = [ s \in Slots |-> Idle ]
    /\ now = 0
    /\ ops = 0
    /\ ev = Event("Init", 0)
    /\ addStarted = {}

SpecReturning == InitReturning /\ [][Next]_vars

\* -------------------------------------------- calls on a book without isbn
\* The fields updateBookMetadata overwrites in this model: the isbn is
\* cleared, the book is marked as a favourite.
MetadataInputs == {"isbn", "isFavorite"}

\* { ...bookToUpdate, ...metadata }
ApplyMetadata(book, key) ==
    CASE key = "isbn"       -> [book EXCEPT !.isbn = ""]
      [] key = "isFavorite" -> [book EXCEPT !.isFavorite = TRUE]
      [] OTHER              -> book

\* updateBookMetadata(bookId, metadata) of the provider: saveBook of the
\* merged book; it throws when the book is not found.
UpdateBookMetadata(bookId, key) ==
    LET i == IndexOf(books, LAMBDA b : b.id = bookId)
    IN  /\ ops < MaxOps
        /\ ops' = ops + 1
        /\ IF i = 0
           THEN /\ ev' = Event("MetadataNotFound", 0)
                /\ UNCHANGED << books, statuses >>
           ELSE LET saved == SaveBook(books, statuses, ApplyMetadata(books[i], key))
                IN  /\ books' = saved.books
                    /\ statuses' = saved.statuses
                    /\ ev' = Event("MetadataUpdated", 0)
        /\ UNCHANGED << cache, queue, retry, procs, now, addStarted >>

\* saveEnrichedBook(book), called on its own.
SaveEnrichedBookCalled(book) ==
    LET shared == SaveEnrichedBook(cache, queue, book)
    IN  /\ ops < MaxOps
        /\ ops' = ops + 1
        /\ cache' = shared.cache
        /\ queue' = shared.queue
        /\ ev' = Event(IF book.isbn = "" THEN "SaveNoIsbn" ELSE "SaveShared", 0)
        /\ UNCHANGED << books, statuses, retry, procs, now, addStarted >>

\* processEnrichment(book), entered on its own.
ProcessEnrichmentCalled(book) ==
    LET entry == ProcessEnrichmentEntry(queue, book)
    IN  /\ ops < MaxOps
        /\ ops' = ops + 1
        /\ IF book.isbn = ""
           THEN /\ queue' = entry.queue
                /\ procs' = IF entry.started
                            THEN [procs EXCEPT ![FreeSlot] = PeProc(book, "", << >>, 1, FALSE)]
                            ELSE procs
                /\ ev' = Event("ProcessNoIsbn", 0)
           ELSE /\ FreeSlots # {}
                /\ queue' = entry.queue
                /\ procs' = [Disturb(procs, book.isbn) EXCEPT ![FreeSlot] =
                                PeProc(book, "", << >>, 1, StartsClean(book.isbn))]
                /\ ev' = Event("ProcessStarted", FreeSlot)
        /\ UNCHANGED << books, statuses, cache, retry, now, addStarted >>

\* The storage after updateBookMetadata cleared the isbn of its first book.
IsbnCleared(session) ==
    LET saved == SaveBook(session.books, session.statuses,
                          ApplyMetadata(session.books[1], "isbn"))
    IN  [ books |-> saved.books, statuses |-> saved.statuses,
          cache |-> session.cache, queue |-> session.queue ]

\* The storage of the earlier session after the user cleared the isbn of
\* the book with updateBookMetadata.
NoIsbnSession == IsbnCleared(EarlierSession)

InitNoIsbn ==
    /\ \E session \in {NoIsbnSession} :
          /\ books = session.books
          /\ statuses = session.statuses
          /\ cache = session.cache
          /\ queue = session.queue
    /\ retry = << >>
    /\ procs = [ s \in Slots |-> Idle ]
    /\ now = 0
    /\ ops = 0
    /\ ev = Event("Init", 0)
    /\ addStarted = {}

NextNoIsbn ==
    \/ Next
    \/ \E id \in CatalogIds, key \in MetadataInputs : UpdateBookMetadata(id, key)
    \/ \E book \in UiBooks : SaveEnrichedBookCalled(book)
    \/ \E book \in UiBooks : ProcessEnrichmentCalled(book)

SpecNoIsbn == InitNoIsbn /\ [][NextNoIsbn]_vars

\* ------------------------------------------- a session that was cut short
EmptyStorage == [ books |-> << >>, statuses |-> << >>, cache |-> << >>, queue |-> << >> ]

\* The storage after addBookToLibrary(gid) missed the cache at time t and
\* its processEnrichment pass enqueued the isbn.
AddedAndQueued(session, gid, t) ==
    LET fullBook == CreateFullBookFromMinimalData(gid, MinimalIsbn(gid, t), t)
        saved == SaveBook(session.books, session.statuses, fullBook)
    IN  [ books |-> saved.books, statuses |-> saved.statuses,
          cache |-> session.cache,
          queue |-> ProcessEnrichmentEntry(session.queue, fullBook).queue ]

\* The storage after deleteBook(id).
DeletedFrom(session, id) ==
    LET r == DeleteBookResult(session.books, session.statuses, id)
    IN  [ books |-> r.books, statuses |-> r.statuses,
          cache |-> session.cache, queue |-> session.queue ]

\* The earlier session added g3 and g1, deleted g3, and the page was closed
\* before either enrichment returned: both isbns are still in the queue,
\* and no pass or timer of that session is left.
InterruptedSession ==
    DeletedFrom(AddedAndQueued(AddedAndQueued(EmptyStorage, "g3", 0), "g1", 0), "g3")

InitInterrupted ==
    /\ \E session \in {InterruptedSession} :
          /\ books = session.books
          /\ statuses = session.statuses
          /\ cache = session.cache
          /\ queue = session.queue
    /\ retry = << >>
    /\ procs = [ s \in Slots |-> Idle ]
    /\ now = 0
    /\ ops = 0
    /\ ev = Event("Init", 0)
    /\ addStarted = {}

SpecInterrupted == InitInterrupted /\ [][Next]_vars

\* --------------------------------------- a session with a favourite book
\* The storage after the user marked the first book as a favourite and had
\* BookDetails call enrichBookMetadata on it.
MarkedAndEnriched(session) ==
    LET marked == UpdateSection(session.books, session.statuses, 1, "isFavorite")
    IN  OrchSave(marked.books, marked.statuses, session.cache, session.queue,
                 marked.books[1])

FavouriteSession == MarkedAndEnriched(EarlierSession)

InitFavourite ==
    /\ \E session \in {FavouriteSession} :
          /\ books = session.books
          /\ statuses = session.statuses
          /\ cache = session.cache
          /\ queue = session.queue
    /\ retry = << >>
    /\ procs = [ s \in Slots |-> Idle ]
    /\ now = 0
    /\ ops = 0
    /\ ev = Event("Init", 0)
    /\ addStarted = {}

SpecFavourite == InitFavourite /\ [][Next]_vars

\* ------------------------------------------------------------- fairness
\* The step a suspended chain takes when what it waits for arrives: the
\* response of a request, or the end of a timer.
ChainStep(s) ==
    \/ AddFetchFailed(s)
    \/ AddCacheHit(s)
    \/ AddCacheMiss(s)
    \/ \E resp \in AnalysisResponses : HolisticReturn(s, resp)
    \/ \E resps \in PassAnswers(FieldsToProcess(IdentifyMissingData(procs[s].book))) :
          FieldsReturn(s, resps)
    \/ RetryTimerFires(s)
    \/ QueuePauseDone(s)

\* The calls around one book: it is added, scheduled, deleted, the queue is
\* processed, and the suspended chains go on.
NextDrain ==
    \/ AddBookToLibrary("g1")
    \/ \E s \in Slots : ChainStep(s)
    \/ \E book \in UiBooks : ScheduleEnrichment(book)
    \/ ProcessEnrichmentQueue
    \/ DeleteBook("g1")

\* Every network call and every timer eventually completes.
SpecDrain == Init /\ [][NextDrain]_vars /\ WF_vars(\E s \in Slots : ChainStep(s))

\* ------------------------------------------------------------ properties
\* The chain that took the last step, as it was before the step.
Stepped == procs[ev'.slot]

\* The book of the collection with the given id, NoBook when there is none.
BookWithId(bks, id) ==
    LET i == IndexOf(bks, LAMBDA b : b.id = id)
    IN  IF i = 0 THEN NoBook ELSE bks[i]

\* C1 (as stated): of two addBookToLibrary calls with different catalog ids
\* that resolve to the same non-placeholder ISBN, at most one starts an
\* enrichment, whatever their timing.
C1_OneEnrichmentPerSharedIsbn ==
    \A x \in addStarted, y \in addStarted :
        (x[1] = y[1] /\ ~ IsPlaceholder(x[1])) => x[2] = y[2]

\* C2 (as stated): at every moment at most one enrichment pass is in flight
\* for a given ISBN.
C2_OneInFlightPerIsbn ==
    \A s \in Slots, t \in Slots :
        (InFlight(procs[s]) /\ InFlight(procs[t]) /\ procs[s].book.isbn = procs[t].book.isbn)
            => s = t

C4_EveryFailureCounts ==
    [][ (/\ ev'.type \in {"PassDoneNoAnswer", "RetryScheduled"}
         /\ RetryCount(retry, Stepped.book.isbn) < RetryLimit)
            => /\ RetryCount(retry', Stepped.book.isbn)
                    = RetryCount(retry, Stepped.book.isbn) + 1
               /\ IsInEnrichmentQueue(queue', Stepped.book.isbn)
               /\ \E s \in Slots : /\ procs'[s].kind = "timer"
                                   /\ procs'[s].book = Stepped.book ]_vars

\* C5 (as stated): counting the initial attempt, processEnrichment runs at
\* most 3 times for one enrichment.
C5_AtMostThreeRuns ==
    \A s \in Slots : (IsChain(procs[s]) /\ procs[s].clean) => procs[s].attempts <= RetryLimit

\* C5 (amended): the counter never exceeds 3, and an enrichment that starts
\* with a cleared counter and is alone on its ISBN runs processEnrichment
\* at most 4 times, the initial attempt and 3 re-attempts.
C5_AtMostFourRuns ==
    /\ \A isbn \in DOMAIN retry : retry[isbn] \in 1..RetryLimit
    /\ \A s \in Slots :
          (IsChain(procs[s]) /\ procs[s].clean) => procs[s].attempts <= RetryLimit + 1

\* C5 witness: the 4th run of such an enrichment is in flight.
C5_FourthRun ==
    \E s \in Slots : /\ InFlight(procs[s]) /\ procs[s].clean
                     /\ procs[s].attempts = RetryLimit + 1
                     /\ RetryCount(retry, procs[s].book.isbn) = RetryLimit

\* C6: addBookToLibrary settles when the catalog answers: on a miss it
\* resolves with the default book saved while the enrichment it started is
\* still waiting for its first answer, on a hit it resolves too; and no
\* public method rejects except addBookToLibrary on a failed lookup, so no
\* enrichment failure reaches a caller.
C6_EnrichmentNeverRejects ==
    [][ /\ ev'.settled = "rejected"
            => (ev'.type = "AddRejected" /\ Stepped.kind = "add" /\ Stepped.pc = "fetch")
        /\ ev'.type \in {"AddMiss", "AddHit"}
            => /\ ev'.settled = "resolved"
               /\ BookWithId(books', Stepped.gid) # NoBook
        /\ (ev'.type = "AddMiss" /\ procs'[ev'.slot].kind # "idle")
            => (procs'[ev'.slot].kind = "pe" /\ procs'[ev'.slot].pc = "holistic")
        /\ ev'.type \in {"OrchFailed", "OrchCompleted", "ScheduleStarted", "ScheduleSkipped",
                         "ScheduleNoIsbn", "QueueDone", "QueueEmpty"}
            => ev'.settled = "resolved" ]_vars

\* C6 witness: an enrichment started by an add has given up, and a later
\* enrichBookMetadata call whose pass threw has just settled.
C6_FailuresAbsorbed ==
    /\ ev.type = "OrchFailed"
    /\ \E i \in 1..Len(books) : books[i].enrichedData = TerminalEnrichment

\* C7: a failed catalog lookup rejects the call and leaves the collection,
\* the completion statuses, the cache, the queue and the retry counters
\* unchanged.
C7_FailedLookupChangesNothing ==
    [][ ev'.type = "AddRejected"
            => (ev'.settled = "rejected" /\ UNCHANGED stores) ]_vars

\* C7 witness: a lookup has just failed with a book in the collection, an
\* ISBN queued and a retry counter set.
C7_LookupFailed ==
    /\ ev.type = "AddRejected"
    /\ books # << >> /\ queue # << >> /\ DOMAIN retry # {}

\* C8: a cache hit saves the cached entry with id = catalogId, dateAdded =
\* now, readingStatus = to-read and userRating = 0, starts no enrichment
\* and leaves cache and queue unchanged.
C8_CacheHitClones ==
    [][ ev'.type = "AddHit"
            => LET isbn == MinimalIsbn(Stepped.gid, now)
               IN  /\ HasEnrichedBook(cache, isbn)
                   /\ BookWithId(books', Stepped.gid)
                        = [cache[isbn] EXCEPT !.id = Stepped.gid, !.dateAdded = now,
                                              !.readingStatus = "to-read", !.userRating = 0]
                   /\ procs' = [procs EXCEPT ![ev'.slot] = Idle]
                   /\ UNCHANGED << cache, queue, retry, addStarted >> ]_vars

\* C8 witness: a hit has just cloned an entry that was cached under another
\* id at an earlier time, as being read and rated.
C8_HitOnOtherId ==
    /\ ev.type = "AddHit"
    /\ \E i \in 1..Len(books) :
          /\ books[i].isbn \in DOMAIN cache
          /\ cache[books[i].isbn].id # books[i].id
          /\ cache[books[i].isbn].dateAdded # books[i].dateAdded
          /\ cache[books[i].isbn].readingStatus # "to-read"
          /\ cache[books[i].isbn].userRating # 0
          /\ books[i].readingStatus = "to-read" /\ books[i].userRating = 0
          /\ books[i].enrichedData = cache[books[i].isbn].enrichedData
          /\ books[i].enrichedData.present

\* C9 (as stated): a placeholder ISBN is never enqueued and never has an
\* enrichment pass in flight.
C9_PlaceholderNeverEnriched ==
    /\ \A i \in 1..Len(queue) : ~ IsPlaceholder(queue[i])
    /\ \A s \in Slots : InFlight(procs[s]) => ~ IsPlaceholder(procs[s].book.isbn)

\* C10 (as stated): saveEnrichedBook(book) with an ISBN puts the book into
\* the cache under the ISBN, puts it into the caller's collection and
\* dequeues the ISBN - on the step of BookDetails.startEnrichment, where it
\* is the only write.
C10_SaveAlsoUpsertsCollection ==
    [][ (ev'.type = "DetailsCompleted" /\ Stepped.book.isbn # "")
            => /\ HasEnrichedBook(cache', Stepped.book.isbn)
               /\ BookWithId(books', cache'[Stepped.book.isbn].id) = cache'[Stepped.book.isbn]
               /\ ~ IsInEnrichmentQueue(queue', Stepped.book.isbn) ]_vars

\* C11: saveEnrichedBook, scheduleEnrichment and processEnrichment called
\* with a book that has no isbn change neither the collection, the
\* statuses, the cache, the queue nor the retry counters, and start no
\* enrichment pass.
C11_NoIsbnNoEffect ==
    [][ ev'.type \in {"SaveNoIsbn", "ScheduleNoIsbn", "ProcessNoIsbn"}
            => UNCHANGED << stores, procs >> ]_vars

\* C11 witness: saveEnrichedBook has just been called with such a book while
\* the cache and the queue held entries.
C11_SavedWithoutIsbn ==
    /\ ev.type = "SaveNoIsbn"
    /\ DOMAIN cache # {} /\ queue # << >>

\* The status records of a book id.
StatusesOf(sts, id) == { sts[i] : i \in { k \in 1..Len(sts) : sts[k].bookId = id } }

\* C12: an updateBookSection call, on whatever book, lowers the completion
\* percentage of no book and turns no completion flag from true to false.
C12_CompletionNeverDrops ==
    [][ ev'.type \in {"Updated", "UpdateNotFound"}
            => \A id \in CatalogIds :
                 /\ CalculateMetadataCompletionPercentage(statuses', id)
                        >= CalculateMetadataCompletionPercentage(statuses, id)
                 /\ \A st \in StatusesOf(statuses, id), f \in SectionFlags :
                        st.flags[f] => \E st2 \in StatusesOf(statuses', id) : st2.flags[f]
      ]_vars

\* C12 witness: two updateBookSection calls on table sections have raised
\* a book from 13 to 38.
C12_RaisedTwice ==
    /\ ev.type = "Updated"
    /\ CalculateMetadataCompletionPercentage(statuses, ev.id) = 38

\* C13: deleteBook(id) of a book of the collection removes that book and
\* its status record, so that neither is found afterwards, and leaves the
\* other books, the other status records, the shared cache (the entry of
\* the deleted book's isbn included), the queue and the retry counters as
\* they were; deleteBook of an absent id returns false and changes nothing.
C13_DeleteRemovesOnlyThatBook ==
    [][ ev'.type \in {"Deleted", "DeleteNotFound"}
            => /\ (ev'.type = "Deleted") <=> (BookWithId(books, ev'.id) # NoBook)
               /\ BookWithId(books', ev'.id) = NoBook
               /\ StatusesOf(statuses', ev'.id) = {}
               /\ books' = SelectSeq(books, LAMBDA b : b.id # ev'.id)
               /\ statuses' = SelectSeq(statuses, LAMBDA st : st.bookId # ev'.id)
               /\ UNCHANGED << cache, queue, retry, procs >>
               /\ ev'.type = "DeleteNotFound" => UNCHANGED << books, statuses >>
      ]_vars

\* C13 witness: a book has been deleted while another one stays in the
\* collection and the cache holds the entry of the deleted book's isbn.
C13_DeletedBesideAnother ==
    /\ ev.type = "Deleted"
    /\ ev.id = "g1"
    /\ Len(books) = 1 /\ Len(statuses) = 1
    /\ HasEnrichedBook(cache, MinimalIsbn("g1", 0))

\* C14: no two books of the collection have the same id.
C14_UniqueIds ==
    \A i \in 1..Len(books), j \in 1..Len(books) : books[i].id = books[j].id => i = j

\* C14 witness: an enrichment pass has saved its book over the stored one
\* while the collection holds two books.
C14_SavedOverExisting ==
    /\ ev.type = "PassDone"
    /\ Len(books) = 2

\* C15: every book of the collection has exactly one status record, and
\* every status record belongs to a book of the collection.
C15_OneStatusPerBook ==
    /\ \A i \in 1..Len(books) :
           Cardinality({ k \in 1..Len(statuses) : statuses[k].bookId = books[i].id }) = 1
    /\ \A k \in 1..Len(statuses) : BookWithId(books, statuses[k].bookId) # NoBook

\* C15 witness: a book added in this session has been deleted again, and
\* the book of the earlier session is left with its status record.
C15_DeletedTheNewBook ==
    /\ ev.type = "Deleted"
    /\ ev.id = "g2"
    /\ Len(books) = 1 /\ Len(statuses) = 1

\* C16 (as stated): dateAdded is immutable: a book id that stays in the
\* collection keeps the dateAdded it has, whatever step is taken.
C16_DateAddedImmutable ==
    [][ \A id \in CatalogIds :
            (BookWithId(books, id) # NoBook /\ BookWithId(books', id) # NoBook)
                => BookWithId(books', id).dateAdded = BookWithId(books, id).dateAdded
      ]_vars

\* C17: a book saved under an id that was not in the collection gets one
\* status record with basicInfoComplete true and the seven other flags
\* false, hence a completion percentage of 13; a save of a book whose id is
\* in the collection (every write but updateBookSection, which marks its
\* section afterwards) leaves the status record of that id as it was.
C17_NewIdGetsBasicStatus ==
    [][ \A id \in CatalogIds :
            /\ (BookWithId(books, id) = NoBook /\ BookWithId(books', id) # NoBook)
                  => /\ \A st \in StatusesOf(statuses', id), f \in SectionFlags :
                            st.flags[f] <=> (f = "basicInfoComplete")
                     /\ CalculateMetadataCompletionPercentage(statuses', id) = 13
            /\ (BookWithId(books, id) # NoBook /\ BookWithId(books', id) # NoBook
                    /\ ev'.type # "Updated")
                  => StatusesOf(statuses', id) = StatusesOf(statuses, id)
      ]_vars

\* C17 witness: an enrichment pass has saved its book over the stored one,
\* whose status record had a section marked by the user meanwhile.
C17_SavedOverMarkedBook ==
    /\ ev.type = "PassDone"
    /\ Len(books) = 1 /\ Len(statuses) = 1
    /\ statuses[1].flags["contentClassificationComplete"]

\* The flag the field-to-section table gives for the sections written in
\* this model, "" for a field that is not in the table.
TableFlag(section) ==
    CASE section = "genres" -> "contentClassificationComplete"
      [] section = "themes" -> "contentAnalysisComplete"
      [] OTHER              -> ""

\* C18: updateBookSection(id, field) on a book of the collection sets the
\* one flag the table gives for the field in the status record of that id
\* and changes no other flag and no other record (genres on a new book:
\* contentClassificationComplete, 13 to 25); a field that is not in the
\* table leaves the statuses as they are; an id that is not in the
\* collection changes nothing.
C18_SetsExactlyTheTableFlag ==
    [][ /\ ev'.type = "Updated"
            => /\ BookWithId(books, ev'.id) # NoBook
               /\ Len(statuses') = Len(statuses)
               /\ \A k \in 1..Len(statuses) :
                     /\ statuses'[k].bookId = statuses[k].bookId
                     /\ \A f \in SectionFlags :
                           statuses'[k].flags[f]
                             = IF statuses[k].bookId = ev'.id /\ f = TableFlag(ev'.section)
                               THEN TRUE ELSE statuses[k].flags[f]
               /\ TableFlag(ev'.section) = "" => statuses' = statuses
               /\ (ev'.section = "genres"
                     /\ CalculateMetadataCompletionPercentage(statuses, ev'.id) = 13
                     /\ \A st \in StatusesOf(statuses, ev'.id) : st.flags["basicInfoComplete"])
                    => CalculateMetadataCompletionPercentage(statuses', ev'.id) = 25
        /\ ev'.type = "UpdateNotFound"
            => /\ BookWithId(books, ev'.id) = NoBook
               /\ UNCHANGED << stores, procs >>
      ]_vars

\* C18 witness: the genres of a new book have been written while the
\* collection holds another book; the new book stands at 25.
C18_GenresOfNewBook ==
    /\ ev.type = "Updated" /\ ev.section = "genres" /\ ev.id = "g2"
    /\ Len(statuses) = 2
    /\ CalculateMetadataCompletionPercentage(statuses, "g2") = 25
    /\ CalculateMetadataCompletionPercentage(statuses, "g1") = 13

\* C19: the persisted enrichment queue never holds an isbn twice, and a
\* step that dequeues an isbn (a pass completing or giving up, a
\* saveEnrichedBook of the book) leaves no occurrence of it.
C19_QueueHasNoDuplicates ==
    [][ /\ \A i \in 1..Len(queue'), j \in 1..Len(queue') :
              queue'[i] = queue'[j] => i = j
        /\ (ev'.type \in {"PassDone", "PassDoneNoAnswer", "Terminal",
                          "OrchCompleted", "DetailsCompleted"}
               /\ Stepped.book.isbn # "")
              => ~ IsInEnrichmentQueue(queue', Stepped.book.isbn)
      ]_vars

\* C19 witness: two enrichments of one isbn are in flight, both having
\* enqueued it, and the queue holds it once.
C19_EnqueuedTwiceHeldOnce ==
    /\ \E s \in Slots, t \in Slots :
          /\ s # t
          /\ IsChain(procs[s]) /\ IsChain(procs[t])
          /\ procs[s].book.isbn = procs[t].book.isbn
          /\ queue = << procs[s].book.isbn >>

\* C20: the save that ends an enrichment pass writes the snapshot the pass
\* took of the book when it started, with the enrichment results: the
\* stored book then has the reading status, the rating and the favourite
\* mark of the snapshot, whatever the user wrote to the book while the pass
\* was suspended.
C20_LastWriterWins ==
    [][ ev'.type \in {"PassDone", "PassDoneNoAnswer"}
            => LET snapshot == Stepped.book
                   stored == BookWithId(books', snapshot.id)
               IN  /\ stored # NoBook
                   /\ stored.readingStatus = snapshot.readingStatus
                   /\ stored.userRating = snapshot.userRating
                   /\ stored.isFavorite = snapshot.isFavorite
                   /\ stored.dateAdded = snapshot.dateAdded
      ]_vars

\* C20 witness: a pass has ended on a book whose genres the user had
\* written meanwhile (the status record has the section marked); the
\* stored book has no genres any more.
C20_UserWriteLost ==
    /\ ev.type = "PassDoneNoAnswer"
    /\ Len(books) = 1 /\ Len(statuses) = 1
    /\ statuses[1].flags["contentClassificationComplete"]
    /\ "genres" \notin books[1].filled

\* C21: scheduleEnrichment tests the queue and enqueues in one step: a call
\* for an isbn that is in the queue returns without changing anything and
\* without starting a pass, and a call that starts a pass has the isbn in
\* the queue when it returns.
C21_QueuedIsbnNotStartedAgain ==
    [][ ev'.type \in {"ScheduleStarted", "ScheduleSkipped"}
            => LET isbn == BookWithId(books, ev'.id).isbn
               IN  /\ (\E i \in 1..Len(queue) : queue[i] = isbn)
                        => (ev'.type = "ScheduleSkipped" /\ UNCHANGED << stores, procs >>)
                   /\ ev'.type = "ScheduleStarted"
                        => /\ \E i \in 1..Len(queue') : queue'[i] = isbn
                           /\ InFlight(procs'[ev'.slot])
                           /\ \A s \in Slots \ {ev'.slot} : procs'[s].kind = procs[s].kind
      ]_vars

\* C21 witness: scheduleEnrichment has been called twice on the book of the
\* earlier session; the pass of the first call is in flight and the second
\* call has returned without starting one.
C21_SecondScheduleSkipped ==
    /\ ev.type = "ScheduleSkipped" /\ ev.id = "g1"
    /\ addStarted = {}
    /\ Cardinality({ s \in Slots : InFlight(procs[s]) /\ procs[s].book.id = "g1" }) = 1

\* C22: a processEnrichment pass starts with the holistic request; it goes
\* on to the per-field requests only from that request, and only when the
\* request failed or came back with the placeholder text; when it came
\* back with an analysis the pass ends there, no per-field request made.
C22_FieldsOnlyAfterUnusableAnalysis ==
    [][ \A s \in Slots :
          /\ (procs'[s].kind = "pe" /\ procs[s].kind # "pe")
                => procs'[s].pc = "holistic"
          /\ (procs'[s].kind = "pe" /\ procs'[s].pc = "fields" /\ procs[s].pc # "fields")
                => /\ procs[s].kind = "pe" /\ procs[s].pc = "holistic"
                   /\ \E resp \in {"pending", "error"} : HolisticReturn(s, resp)
          /\ HolisticReturn(s, "ok")
                => /\ procs'[s].pc # "fields"
                   /\ ev'.type = "PassDone"
                   /\ BookWithId(books', procs[s].book.id).enrichedData.aiAnalysis = "analysis"
      ]_vars

\* C22 witness: one pass has ended on the analysis of its holistic request
\* while another one, whose holistic request failed, is suspended on its
\* per-field requests.
C22_OneEndedOneFellBack ==
    /\ ev.type = "PassDone"
    /\ \E i \in 1..Len(books) : books[i].enrichedData.aiAnalysis = "analysis"
    /\ \E s \in Slots : procs[s].kind = "pe" /\ procs[s].pc = "fields"

Examined(s) ==
    LET before == IF procs[s].kind = "queue" THEN procs[s].rest ELSE queue
        after == IF procs'[s].kind = "pe" THEN procs'[s].rest ELSE << >>
    IN  SubSeq(before, 1, Len(before) - Len(after))

\* C24: processEnrichmentQueue goes through the isbns that were queued when
\* it was called one after another: it starts a pass only when it has none
\* in flight, on the first entry that has a book in the collection; every
\* entry it passes without a book is removed from the queue, and the step
\* makes no request and changes neither the collection nor the cache.
C24_QueueOneByOneDroppingOrphans ==
    [][ /\ ev'.type \in {"QueueStarted", "QueueDone"}
            => LET s == ev'.slot
                   examined == Examined(s)
                   n == Len(examined)
                   HasBook(isbn) == \E k \in 1..Len(books) : books[k].isbn = isbn
               IN  /\ procs[s].kind \in {"idle", "queue"}
                   /\ UNCHANGED << books, statuses, cache, retry >>
                   /\ \A t \in Slots \ {s} :
                         procs'[t].kind = procs[t].kind /\ procs'[t].pc = procs[t].pc
                   /\ \A i \in 1..n :
                         ~ HasBook(examined[i])
                            => /\ \A k \in 1..Len(queue') : queue'[k] # examined[i]
                               /\ ev'.type = "QueueStarted" => i < n
                   /\ ev'.type = "QueueStarted"
                         => /\ n > 0 /\ HasBook(examined[n])
                            /\ procs'[s].kind = "pe" /\ procs'[s].pc = "holistic"
                            /\ procs'[s].book.isbn = examined[n]
                            /\ \A i \in 1..(n - 1) : ~ HasBook(examined[i])
                   /\ ev'.type = "QueueDone"
                         => /\ procs'[s].kind = "idle"
                            /\ \A i \in 1..n : ~ HasBook(examined[i])
        /\ \A s \in Slots :
              (procs[s].kind = "pe" /\ procs[s].caller = "queue")
                 => \/ procs'[s].kind = "pe" /\ procs'[s].book = procs[s].book
                    \/ procs'[s].kind = "queue" /\ procs'[s].rest = procs[s].rest
      ]_vars

\* C24 witness: the loop has dropped the isbn of the deleted book, which
\* came first in the queue, and started a pass on the book that is there.
C24_OrphanDroppedPassStarted ==
    /\ ev.type = "QueueStarted"
    /\ queue = << MinimalIsbn("g1", 0) >>
    /\ Len(books) = 1
    /\ procs[ev.slot].book.isbn = MinimalIsbn("g1", 0)
    /\ cache = << >>

\* No processEnrichment pass, retry timer or queue loop is pending.
Quiet == \A s \in Slots : procs[s].kind \notin {"pe", "timer", "queue"}

\* C25: when every request and timer completes, the enrichment queue is
\* empty again and again, so no isbn stays in it; an isbn is in the queue
\* only while a pass or a retry timer of that isbn is pending, so the queue
\* is empty whenever none is.
C25_QueueDrains ==
    /\ []<>(queue = << >>)
    /\ [](\A i \in 1..Len(queue) :
             \E s \in Slots : IsChain(procs[s]) /\ procs[s].book.isbn = queue[i])
    /\ [](Quiet => queue = << >>)

\* C25 witness: a pass has given up after the retry ceiling, nothing is
\* pending any more and the queue is empty.
C25_DrainedAfterGivingUp ==
    /\ ev.type = "Terminal"
    /\ Quiet
    /\ queue = << >>

\* C26 (as stated): a deleted book stays deleted: no step of an enrichment
\* pass or retry of a book whose id is not in the collection puts a book
\* or a status record of that id into it.
C26_DeletedStaysDeleted ==
    [][ (ev'.slot \in Slots /\ IsChain(Stepped)
            /\ BookWithId(books, Stepped.book.id) = NoBook)
          => /\ BookWithId(books', Stepped.book.id) = NoBook
             /\ StatusesOf(statuses', Stepped.book.id) = {}
      ]_vars

\* C27 (as stated): an isbn that is not in the enrichment queue and has no
\* retry timer pending has no persisted retry counter.
C27_NoCounterWhenIdle ==
    \A isbn \in DOMAIN retry :
        \/ \E i \in 1..Len(queue) : queue[i] = isbn
        \/ \E s \in Slots : procs[s].kind = "timer" /\ procs[s].book.isbn = isbn

\* C28 (as stated): a processEnrichment pass whose holistic request was
\* not usable and whose per-field requests all fail writes nothing to the
\* shared cache.  (A pass is at its per-field requests only after its
\* holistic request failed or came back with the placeholder, and the state
\* is the same in both cases.)
C28_FailedPassWritesNoCache ==
    [][ \A s \in Slots :
          (procs[s].kind = "pe" /\ procs[s].pc = "fields"
              /\ FieldsReturn(s, [ i \in 1..Len(FieldsToProcess(IdentifyMissingData(procs[s].book)))
                                     |-> "fail" ]))
            => cache' = cache
      ]_vars

\* C29 (as stated): the book addBookToLibrary clones from the shared cache
\* has the user data of a new book, whatever the owner of the cached copy
\* had set: it is not a favourite.
C29_CloneCarriesNoUserData ==
    [][ ev'.type = "AddHit"
            => BookWithId(books', Stepped.gid).isFavorite
                  = CreateFullBookFromMinimalData(Stepped.gid, "", now).isFavorite
      ]_vars

\* C30: a step of an enrichment (a pass completing with or without an
\* answer, a retry being scheduled or started, a pass giving up, an
\* enrichment called from BookDetails returning) whose book is in the
\* collection leaves that book's completion-status record as it was: the
\* same flags, the same completion percentage and the same needsEnrichment.
C30_EnrichmentLeavesStatus ==
    [][ (/\ ev'.slot \in Slots
         /\ Stepped.kind \in {"pe", "timer", "orch", "details"}
         /\ BookWithId(books, Stepped.book.id) # NoBook)
          => LET id == Stepped.book.id
             IN  /\ StatusesOf(statuses', id) = StatusesOf(statuses, id)
                 /\ CalculateMetadataCompletionPercentage(statuses', id)
                       = CalculateMetadataCompletionPercentage(statuses, id)
                 /\ (CalculateMetadataCompletionPercentage(statuses', id)
                          < CompletionThreshold)
                       = (CalculateMetadataCompletionPercentage(statuses, id)
                          < CompletionThreshold)
      ]_vars

\* C30 witness: a pass completed and stored the themes it obtained in a book
\* whose section the user had marked meanwhile; the record still has the
\* user's flag, no flag for the themes, and the book still needs enrichment.
C30_FilledButStatusKept ==
    /\ ev.type = "PassDone"
    /\ \E i \in 1..Len(books) :
          /\ "themes" \in books[i].filled
          /\ \E st \in StatusesOf(statuses, books[i].id) :
                /\ ~ st.flags[TableFlag("themes")]
                /\ \E f \in SectionFlags : st.flags[f] /\ ~ InitialStatus(books[i].id).flags[f]
          /\ CalculateMetadataCompletionPercentage(statuses, books[i].id)
                < CompletionThreshold

====
